---- MODULE Spec2Model ----
(***************************************************************************)
(* PVSS (publicly verifiable secret sharing) of pvss.py and the            *)
(* Chaum-Pedersen proofs of cpni.py.                                       *)
(*                                                                         *)
(* The group Gq of prime order p is represented by Z_p: a group element is *)
(* its discrete logarithm with respect to the base generator g0, so g0 is  *)
(* the element 1, the identity is 0, point addition is addition mod p and  *)
(* scalar multiplication is multiplication mod p (the group reduces the    *)
(* scalar by its order).  Python lists are sequences (1-based here).       *)
(*                                                                         *)
(* A Bn that comes out of the hash is a big number: it is represented by   *)
(* its string of base-256 digits, most significant first, which is what    *)
(* Bn.from_binary reads.  All other Bn values are integers.                *)
(***************************************************************************)
EXTENDS Integers, Sequences, FiniteSets

\* The group order p = Gq.order(), scaled down to a small prime.
P == 5

\* Largest number of participants n (and of entries of any list).
MaxN == 3

\* Samples of the values p.random() returns, where the whole field is too much.
PrivSample == {1, 3}
NonceSample == {0, 2}
\* Samples of the commitment generator h (g0 is the element 1).
HSample == {2, 3}

VARIABLES
    params,      \* (Gq, p, g0, h)
    keys,        \* the participants' key pairs, in order
    dealer,      \* the call of gen_proof: its arguments and what it returned
    received,    \* the bundle and proof as handed to DLEQ_verify_list
    verdict,     \* what the last verification call returned
    decryption,  \* the call of participant_decrypt_and_prove
    proved,      \* proved_decryptions, with the Y_i and pub_key of each entry
    sharing,     \* a polynomial, its shares and its commitments
    recon        \* the call of decode

vars == <<params, keys, dealer, received, verdict, decryption, proved, sharing, recon>>

----------------------------------------------------------------------------
\* petlib: Bn and EcPt arithmetic

Max0(x) == IF x > 0 THEN x ELSE 0

Min2(a, b) == IF a < b THEN a ELSE b

RECURSIVE Pow(_, _)
\* Bn.__pow__: the integer power, not reduced.
Pow(b, e) == IF e = 0 THEN 1 ELSE b * Pow(b, e - 1)

\* EcPt.__add__
PtAdd(a, b) == (a + b) % P

\* EcPt.__rmul__: scalar * point, for an integer scalar of any size or sign.
PtMul(s, e) == ((s % P) * e) % P

RECURSIVE BnModAcc(_, _, _)
BnModAcc(c, p, j) ==
    IF j = 0 THEN 0 ELSE (BnModAcc(c, p, j - 1) * 256 + c[j]) % p

\* The value of the big number c, mod p.
BnMod(c, p) == BnModAcc(c, p, Len(c))

RECURSIVE BnCapAcc(_, _, _)
BnCapAcc(c, cap, j) ==
    IF j = 0 THEN 0 ELSE Min2(BnCapAcc(c, cap, j - 1) * 256 + c[j], cap)

\* Whether the big number c is below p.
BnLess(c, p) == BnCapAcc(c, p, Len(c)) < p

\* scalar * point for a big-number scalar.
PtMulBn(c, e) == (BnMod(c, P) * e) % P

\* Bn.mod_inverse: raises when there is no inverse.
HasInverse(a, p) == \E x \in 1..(p - 1) : (x * (a % p)) % p = 1

mod_inverse(a, p) == CHOOSE x \in 1..(p - 1) : (x * (a % p)) % p = 1

----------------------------------------------------------------------------
\* cpni.py

\* petlib.pack.encode of a point, and of a list of points (array header, items).
pack_pt(e) == <<e>>

pack_list(l) == <<144 + Len(l)>> \o l

\* encode([h_1, h_2, a_1, a_2]): the header of a 4-array, then the four items.
encode(h_1, h_2, a_1, a_2) == <<148>> \o h_1 \o h_2 \o a_1 \o a_2

\* sha256, taken as collision-free: the digest determines the bytes hashed.
sha256(data) == <<Len(data)>> \o data

\* Bn.from_binary(sha256(encode([h_1, h_2, a_1, a_2])).digest()); p is not used.
hash(p, h_1, h_2, a_1, a_2) == sha256(encode(h_1, h_2, a_1, a_2))

RECURSIVE get_X_i_acc_shifted(_, _, _)
\* The powers one too high: i**(j+1) for C_j.
get_X_i_acc_shifted(C_list, i, j) ==
    IF j = 1 THEN PtMul(Pow(i, 1), C_list[1])
    ELSE PtAdd(get_X_i_acc_shifted(C_list, i, j - 1), PtMul(Pow(i, j), C_list[j]))

RECURSIVE get_X_i_acc(_, _, _)
\* The loop of __get_X_i over the first j commitments.
get_X_i_acc(C_list, i, j) ==
    IF j = 1 THEN PtMul(Pow(i, 0), C_list[1])
    ELSE PtAdd(get_X_i_acc(C_list, i, j - 1), PtMul(Pow(i, j - 1), C_list[j]))

\* __get_X_i: sum over j of (i**j) * C_j; elements[0] of an empty list raises.
get_X_i(C_list, i) == get_X_i_acc(C_list, i, Len(C_list))

get_X_i_list(commitments, n) == [i \in 1..n |-> get_X_i(commitments, i)]

\* The sign of c * alpha turned: r = (w + c * alpha) % p.
DLEQ_calc_r_plus(p, w, alpha, c) == (w + BnMod(c, p) * alpha) % p

\* __DLEQ_calc_r: r = (w - c * alpha) % p, c a big number.
DLEQ_calc_r(p, w, alpha, c) == (w - BnMod(c, p) * alpha) % p

\* __DLEQ_calc_all_r
DLEQ_calc_all_r(p, shares_list, w_list, c) ==
    [i \in 1..Min2(Len(shares_list), Len(w_list)) |->
        DLEQ_calc_r(p, w_list[i], shares_list[i], c)]

\* __DLEQ_prover_calc_a
DLEQ_prover_calc_a(g_1, g_2, w) == <<PtMul(w, g_1), PtMul(w, g_2)>>

DLEQ_verifyer_calc_a(r, c, g_1, h_1, g_2, h_2) ==
    <<PtAdd(PtMul(r, g_1), PtMulBn(c, h_1)), PtAdd(PtMul(r, g_2), PtMulBn(c, h_2))>>

\* DLEQ_prove, with the nonce w that p.random() returned.
DLEQ_prove(p, g_1, g_2, h_1, h_2, x_i, w) ==
    LET a == DLEQ_prover_calc_a(g_1, g_2, w)
        c == hash(p, pack_pt(h_1), pack_pt(h_2), pack_pt(a[1]), pack_pt(a[2]))
    IN  [c |-> c, r |-> DLEQ_calc_r(p, w, x_i, c), a_1 |-> a[1], a_2 |-> a[2]]

\* DLEQ_prove_list, with the nonces w_list that p.random() returned (n of them).
DLEQ_prove_list(p, g, C_list, Y_list, y_list, shares_list, w_list) ==
    LET n == Len(Y_list)
        X_list == get_X_i_list(C_list, n)
        a_1_list == [i \in 1..n |-> PtMul(w_list[i], g)]
        a_2_list == [i \in 1..n |-> PtMul(w_list[i], y_list[i])]
        c == hash(p, pack_list(X_list), pack_list(Y_list),
                  pack_list(a_1_list), pack_list(a_2_list))
    IN  [c |-> c, r_list |-> DLEQ_calc_all_r(p, shares_list, w_list, c),
         a_1_list |-> a_1_list, a_2_list |-> a_2_list]

\* DLEQ_verify: both equations, c taken as verified.
DLEQ_verify(g_1, g_2, h_1, h_2, proof) ==
    LET a_new == DLEQ_verifyer_calc_a(proof.r, proof.c, g_1, h_1, g_2, h_2)
    IN  proof.a_1 = a_new[1] /\ proof.a_2 = a_new[2]

\* DLEQ_verify_single
DLEQ_verify_single(p, g_1, g_2, h_1, h_2, proof) ==
    LET c == hash(p, pack_pt(h_1), pack_pt(h_2), pack_pt(proof.a_1), pack_pt(proof.a_2))
    IN  IF c # proof.c THEN FALSE ELSE DLEQ_verify(g_1, g_2, h_1, h_2, proof)

\* The length of zip(...) over the six lists of DLEQ_verify_list.
ZipLen(y_list, X_list, Y_list, proof) ==
    Min2(Min2(Len(y_list), Len(X_list)),
         Min2(Min2(Len(Y_list), Len(proof.r_list)),
              Min2(Len(proof.a_1_list), Len(proof.a_2_list))))

\* DLEQ_verify_list without the comparison of the claimed c with the hash.
DLEQ_verify_list_unchecked_c(p, g, y_list, C_list, Y_list, proof) ==
    LET n == Len(proof.r_list)
    IN  IF n > 0 /\ Len(C_list) = 0 THEN "IndexError"
        ELSE
        LET X_list == get_X_i_list(C_list, n)
        IN  IF \A i \in 1..ZipLen(y_list, X_list, Y_list, proof) :
                  DLEQ_verify(g, y_list[i], X_list[i], Y_list[i],
                              [c |-> proof.c, r |-> proof.r_list[i],
                               a_1 |-> proof.a_1_list[i], a_2 |-> proof.a_2_list[i]])
            THEN "True" ELSE "False"

\* DLEQ_verify_list: "True", "False", or the IndexError of an empty C_list.
DLEQ_verify_list(p, g, y_list, C_list, Y_list, proof) ==
    LET n == Len(proof.r_list)
    IN  IF n > 0 /\ Len(C_list) = 0 THEN "IndexError"
        ELSE
        LET X_list == get_X_i_list(C_list, n)
            c == hash(p, pack_list(X_list), pack_list(Y_list),
                      pack_list(proof.a_1_list), pack_list(proof.a_2_list))
        IN  IF proof.c # c THEN "False"
            ELSE IF \A i \in 1..ZipLen(y_list, X_list, Y_list, proof) :
                       DLEQ_verify(g, y_list[i], X_list[i], Y_list[i],
                                   [c |-> c, r |-> proof.r_list[i],
                                    a_1 |-> proof.a_1_list[i], a_2 |-> proof.a_2_list[i]])
                 THEN "True" ELSE "False"

----------------------------------------------------------------------------
\* pvss.py: the dealer

\* gen_polynomial, with the k-1 coefficients px_rand that p.random() returned.
gen_polynomial(k, secret, px_rand) == <<secret>> \o px_rand

RECURSIVE calc_share_acc(_, _, _, _)
calc_share_acc(px, x, p, j) ==
    IF j = 0 THEN 0
    ELSE (calc_share_acc(px, x, p, j - 1) + px[j] * Pow(x, j - 1)) % p

\* __calc_share: p(x) mod p; asserts len(px) == k first.
calc_share(px, k, x, p) == calc_share_acc(px, x, p, k)

calc_shares(px, k, n, p) == [i \in 1..n |-> calc_share(px, k, i, p)]

get_commitments(h, px) == [j \in 1..Len(px) |-> PtMul(px[j], h)]

\* __get_encrypted_shares
get_encrypted_shares(pub_keys, shares) ==
    [i \in 1..Len(pub_keys) |-> PtMul(shares[i], pub_keys[i])]

NoProof == [c |-> <<>>, r_list |-> <<>>, a_1_list |-> <<>>, a_2_list |-> <<>>]

\* What gen_proof gives when an assert fails: no bundle, no proof.
GenProofError(line, k, n, secret) ==
    [status |-> "AssertionError", line |-> line, k |-> k, n |-> n, secret |-> secret,
     px |-> <<>>, shares |-> <<>>, C_list |-> <<>>, Y_list |-> <<>>, proof |-> NoProof]

\* The threshold check let n == k through.
threshold_ok_weak(k, n) == n >= k

\* assert n > k
threshold_ok(k, n) == n > k

\* gen_proof, its asserts in the order the code reaches them.
gen_proof(prm, k, n, secret, pub_keys, px_rand, w_list) ==
    IF ~threshold_ok(k, n) THEN GenProofError(24, k, n, secret)
    ELSE IF Len(pub_keys) # n THEN GenProofError(25, k, n, secret)
    ELSE
    LET px == gen_polynomial(k, secret, px_rand)
        commitments == get_commitments(prm.h, px)
    IN  IF n > 0 /\ Len(px) # k THEN GenProofError(67, k, n, secret)
        ELSE
        LET shares_list == calc_shares(px, k, n, prm.p)
            enc_shares == get_encrypted_shares(pub_keys, shares_list)
            proof == DLEQ_prove_list(prm.p, prm.h, commitments, enc_shares,
                                     pub_keys, shares_list, w_list)
        IN  IF Len(px) # k THEN GenProofError(38, k, n, secret)
            ELSE IF Len(commitments) # k THEN GenProofError(39, k, n, secret)
            ELSE IF Len(shares_list) # n THEN GenProofError(40, k, n, secret)
            ELSE IF shares_list[1] = secret THEN GenProofError(41, k, n, secret)
            ELSE IF Len(enc_shares) # n THEN GenProofError(42, k, n, secret)
            ELSE [status |-> "ok", line |-> 44, k |-> k, n |-> n, secret |-> secret,
                  px |-> px, shares |-> shares_list,
                  C_list |-> commitments, Y_list |-> enc_shares, proof |-> proof]

\* helper_generate_key_pair, with the x_i that p.random() returned.
helper_generate_key_pair(prm, x_i) == [x |-> x_i, y |-> PtMul(x_i, prm.g0)]

----------------------------------------------------------------------------
\* pvss.py: the participants and the combiner

\* participant_decrypt: x_i.mod_inverse(p) * Y_i (the caller checks HasInverse).
participant_decrypt(prm, x_i, Y_i) == PtMul(mod_inverse(x_i, prm.p), Y_i)

NoSingleProof == [c |-> <<>>, r |-> 0, a_1 |-> 0, a_2 |-> 0]

\* participant_decrypt_and_prove, with the nonce w of DLEQ_prove.
participant_decrypt_and_prove(prm, x_i, Y_i, w) ==
    IF ~HasInverse(x_i, prm.p)
    THEN [status |-> "NoInverse", S |-> 0, proof |-> NoSingleProof]
    ELSE LET S_i == participant_decrypt(prm, x_i, Y_i)
             y_i == PtMul(x_i, prm.g0)
         IN  [status |-> "ok", S |-> S_i,
              proof |-> DLEQ_prove(prm.p, prm.g0, S_i, y_i, Y_i, x_i, w)]

verify_correct_decryption(S_i, Y_i, decrypt_proof, pub_key, p, G) ==
    DLEQ_verify_single(p, G, S_i, pub_key, Y_i, decrypt_proof)

\* The loop returning at its first entry, passed or failed.
batch_loop_first(proved_decryptions, Y_list, pub_keys, p, G, i) ==
    IF i > Min2(Len(proved_decryptions), Min2(Len(Y_list), Len(pub_keys))) THEN TRUE
    ELSE verify_correct_decryption(proved_decryptions[i].S, Y_list[i],
                                   proved_decryptions[i].proof, pub_keys[i], p, G)

RECURSIVE batch_loop(_, _, _, _, _, _)
\* The for loop of batch_verify_correct_decryption, from entry i on.
batch_loop(proved_decryptions, Y_list, pub_keys, p, G, i) ==
    IF i > Min2(Len(proved_decryptions), Min2(Len(Y_list), Len(pub_keys))) THEN TRUE
    ELSE IF verify_correct_decryption(proved_decryptions[i].S, Y_list[i],
                                      proved_decryptions[i].proof, pub_keys[i], p, G) = FALSE
         THEN FALSE
         ELSE batch_loop(proved_decryptions, Y_list, pub_keys, p, G, i + 1)

batch_verify_correct_decryption(proved_decryptions, Y_list, pub_keys, p, G) ==
    batch_loop(proved_decryptions, Y_list, pub_keys, p, G, 1)

RECURSIVE lagrange_top(_, _, _)
\* top of __lagrange over the first m indices.
lagrange_top(i, index_list, m) ==
    IF m = 0 THEN 1
    ELSE IF index_list[m] # i THEN lagrange_top(i, index_list, m - 1) * index_list[m]
         ELSE lagrange_top(i, index_list, m - 1)

RECURSIVE lagrange_bottom_swapped(_, _, _)
\* The difference taken the other way round: (i - j).
lagrange_bottom_swapped(i, index_list, m) ==
    IF m = 0 THEN 1
    ELSE IF index_list[m] # i
         THEN lagrange_bottom_swapped(i, index_list, m - 1) * (i - index_list[m])
         ELSE lagrange_bottom_swapped(i, index_list, m - 1)

RECURSIVE lagrange_bottom_mod(_, _, _)
\* The indices compared mod p: j is skipped when j = i mod p.
lagrange_bottom_mod(i, index_list, m) ==
    IF m = 0 THEN 1
    ELSE IF (index_list[m] - i) % P # 0
         THEN lagrange_bottom_mod(i, index_list, m - 1) * (index_list[m] - i)
         ELSE lagrange_bottom_mod(i, index_list, m - 1)

RECURSIVE lagrange_bottom(_, _, _)
\* bottom of __lagrange over the first m indices.
lagrange_bottom(i, index_list, m) ==
    IF m = 0 THEN 1
    ELSE IF index_list[m] # i
         THEN lagrange_bottom(i, index_list, m - 1) * (index_list[m] - i)
         ELSE lagrange_bottom(i, index_list, m - 1)

\* Whether __lagrange returns: bottom.mod_inverse(p) raises when there is no inverse.
lagrange_ok(i, index_list, p) ==
    HasInverse(lagrange_bottom(i, index_list, Len(index_list)), p)

\* __lagrange: top.mod_mul(bottom.mod_inverse(p), p)
lagrange(i, index_list, p) ==
    (lagrange_top(i, index_list, Len(index_list))
       * mod_inverse(lagrange_bottom(i, index_list, Len(index_list)), p)) % p

RECURSIVE decode_sum(_, _, _, _)
decode_sum(S_list, index_list, p, m) ==
    IF m = 1 THEN PtMul(lagrange(index_list[1], index_list, p), S_list[1])
    ELSE PtAdd(decode_sum(S_list, index_list, p, m - 1),
               PtMul(lagrange(index_list[m], index_list, p), S_list[m]))

\* decode: the value, or the exception the call ends with.
decode(S_list, index_list, p) ==
    IF Len(S_list) # Len(index_list) THEN [status |-> "AssertionError", value |-> 0]
    ELSE IF Len(index_list) = 0 THEN [status |-> "IndexError", value |-> 0]
    ELSE IF \E m \in 1..Len(index_list) : ~lagrange_ok(index_list[m], index_list, p)
         THEN [status |-> "NoInverse", value |-> 0]
         ELSE [status |-> "ok", value |-> decode_sum(S_list, index_list, p, Len(S_list))]

----------------------------------------------------------------------------
\* The states before any call

Params == {[p |-> P, g0 |-> 1, h |-> hh] : hh \in HSample}

NoCall ==
    [status |-> "none", line |-> 0, k |-> 0, n |-> 0, secret |-> 0,
     px |-> <<>>, shares |-> <<>>, C_list |-> <<>>, Y_list |-> <<>>, proof |-> NoProof]

NoBundle ==
    [given |-> FALSE, y_list |-> <<>>, C_list |-> <<>>, Y_list |-> <<>>, proof |-> NoProof]

NoDecryption ==
    [status |-> "none", x |-> 0, share |-> 0, Y |-> 0, S |-> 0, proof |-> NoSingleProof,
     G |-> 0]

NoProved == [entries |-> <<>>, Y_list |-> <<>>, pub_keys |-> <<>>, forged |-> <<>>]

NoSharing ==
    [committed |-> FALSE, px |-> <<>>, k |-> 0, n |-> 0,
     shares |-> <<>>, C_list |-> <<>>, X_list |-> <<>>]

NoRecon == [status |-> "none", index_list |-> <<>>, S_list |-> <<>>, value |-> 0]

pub_keys_of(ks) == [i \in 1..Len(ks) |-> ks[i].y]

\* The bundle and proof the dealer publishes, with the keys they were made for.
Published(d, pub_keys) ==
    [given |-> TRUE, y_list |-> pub_keys, C_list |-> d.C_list,
     Y_list |-> d.Y_list, proof |-> d.proof]

----------------------------------------------------------------------------
\* The dealer and the public verifier (test_full, lines 25-40)

Init ==
    /\ params \in Params
    /\ keys = <<>>
    /\ dealer = NoCall
    /\ received = NoBundle
    /\ verdict = "none"
    /\ decryption = NoDecryption
    /\ proved = NoProved
    /\ sharing = NoSharing
    /\ recon = NoRecon

\* One more participant generates a key pair.
KeyGen ==
    /\ dealer.status = "none"
    /\ Len(keys) < MaxN
    /\ \E x_i \in PrivSample :
          keys' = Append(keys, helper_generate_key_pair(params, x_i))
    /\ UNCHANGED <<params, dealer, received, verdict, decryption, proved, sharing, recon>>

\* The dealer calls gen_proof with the public keys generated so far.
GenProof ==
    /\ dealer.status = "none"
    /\ \E k \in (-1)..MaxN, n \in 0..MaxN, secret \in 0..(P - 1) :
       \E px_rand \in [1..Max0(k - 1) -> 0..(P - 1)], w_list \in [1..n -> NonceSample] :
          /\ dealer' = gen_proof(params, k, n, secret, pub_keys_of(keys), px_rand, w_list)
          /\ received' = IF dealer'.status = "ok"
                         THEN Published(dealer', pub_keys_of(keys)) ELSE NoBundle
    /\ UNCHANGED <<params, keys, verdict, decryption, proved, sharing, recon>>

\* Anyone verifies the published bundle.
VerifyList ==
    /\ received.given
    /\ verdict = "none"
    /\ verdict' = DLEQ_verify_list(params.p, params.h, received.y_list,
                                   received.C_list, received.Y_list, received.proof)
    /\ UNCHANGED <<params, keys, dealer, received, decryption, proved, sharing, recon>>

Next == KeyGen \/ GenProof \/ VerifyList

Spec == Init /\ [][Next]_vars

----------------------------------------------------------------------------
\* The verifier handed a bundle that is not the dealer's

SecretSample == {0, 3}
CoefSample == {0, 1, 4}

\* An honest (k, n) bundle, not yet handed to the verifier.
InitTamper ==
    /\ params \in Params
    /\ \E n \in 1..MaxN, k \in 1..MaxN, secret \in SecretSample, w \in NonceSample :
       \E xs \in [1..n -> PrivSample], px_rand \in [1..(k - 1) -> CoefSample] :
          /\ keys = [i \in 1..n |-> helper_generate_key_pair(params, xs[i])]
          /\ dealer = gen_proof(params, k, n, secret, pub_keys_of(keys), px_rand,
                                [i \in 1..n |-> w])
          /\ dealer.status = "ok"
    /\ received = NoBundle
    /\ verdict = "none"
    /\ decryption = NoDecryption
    /\ proved = NoProved
    /\ sharing = NoSharing
    /\ recon = NoRecon

Honest == Published(dealer, pub_keys_of(keys))

Elements == 0..(P - 1)

\* The values put in the place of r_i: scalars, reduced mod p or not.
Scalars == 0..(2 * P - 1)

\* The values put in the place of c: small numbers, and c with its last digit changed.
Challenges(c) ==
    {<<d>> : d \in 0..(P - 1)}
      \cup {[c EXCEPT ![Len(c)] = (c[Len(c)] + d) % 256] : d \in 1..P}

Untouched == UNCHANGED <<params, keys, dealer, verdict, decryption, proved, sharing, recon>>

Deliver ==
    /\ ~received.given
    /\ received' = Honest
    /\ Untouched

TamperC ==
    /\ ~received.given
    /\ \E j \in 1..Len(Honest.C_list) : \E v \in Elements \ {Honest.C_list[j]} :
          received' = [Honest EXCEPT !.C_list[j] = v]
    /\ Untouched

TamperY ==
    /\ ~received.given
    /\ \E i \in 1..Len(Honest.Y_list) : \E v \in Elements \ {Honest.Y_list[i]} :
          received' = [Honest EXCEPT !.Y_list[i] = v]
    /\ Untouched

TamperChallenge ==
    /\ ~received.given
    /\ \E v \in Challenges(Honest.proof.c) \ {Honest.proof.c} :
          received' = [Honest EXCEPT !.proof.c = v]
    /\ Untouched

TamperR ==
    /\ ~received.given
    /\ \E i \in 1..Len(Honest.proof.r_list) : \E v \in Scalars \ {Honest.proof.r_list[i]} :
          received' = [Honest EXCEPT !.proof.r_list[i] = v]
    /\ Untouched

TamperA1 ==
    /\ ~received.given
    /\ \E i \in 1..Len(Honest.proof.a_1_list) : \E v \in Elements \ {Honest.proof.a_1_list[i]} :
          received' = [Honest EXCEPT !.proof.a_1_list[i] = v]
    /\ Untouched

TamperA2 ==
    /\ ~received.given
    /\ \E i \in 1..Len(Honest.proof.a_2_list) : \E v \in Elements \ {Honest.proof.a_2_list[i]} :
          received' = [Honest EXCEPT !.proof.a_2_list[i] = v]
    /\ Untouched

\* A list with its last item dropped, or with one more item.
Resized(l) == {SubSeq(l, 1, Len(l) - 1)} \cup {Append(l, v) : v \in {0, 1}}

\* One of the five lists that go with each other gets another length.
Resize ==
    /\ ~received.given
    /\ \/ \E l \in Resized(Honest.y_list) : received' = [Honest EXCEPT !.y_list = l]
       \/ \E l \in Resized(Honest.Y_list) : received' = [Honest EXCEPT !.Y_list = l]
       \/ \E l \in Resized(Honest.proof.r_list) :
             received' = [Honest EXCEPT !.proof.r_list = l]
       \/ \E l \in Resized(Honest.proof.a_1_list) :
             received' = [Honest EXCEPT !.proof.a_1_list = l]
       \/ \E l \in Resized(Honest.proof.a_2_list) :
             received' = [Honest EXCEPT !.proof.a_2_list = l]
    /\ Untouched

NextTamper ==
    \/ Deliver \/ TamperC \/ TamperY \/ TamperChallenge \/ TamperR
    \/ TamperA1 \/ TamperA2 \/ Resize \/ VerifyList

SpecTamper == InitTamper /\ [][NextTamper]_vars

----------------------------------------------------------------------------
\* One participant decrypts its share and proves it (test_full, lines 47-50)

InitDecrypt == Init

\* Participant with private key x_i gets Y_i = s_i * y_i and decrypts it.
DecryptAndProve ==
    /\ decryption.status = "none"
    /\ \E x_i \in 0..(P - 1), s_i \in 0..(P - 1), w \in 0..(P - 1) :
          LET y_i == PtMul(x_i, params.g0)
              Y_i == PtMul(s_i, y_i)
              out == participant_decrypt_and_prove(params, x_i, Y_i, w)
          IN  decryption' = [status |-> out.status, x |-> x_i, share |-> s_i, Y |-> Y_i,
                             S |-> out.S, proof |-> out.proof, G |-> 0]
    /\ UNCHANGED <<params, keys, dealer, received, verdict, proved, sharing, recon>>

\* Anyone verifies the decryption, with the generator G it takes for the base.
VerifyDecryption ==
    /\ decryption.status = "ok"
    /\ verdict = "none"
    /\ \E G \in {params.g0, params.h} :
          /\ decryption' = [decryption EXCEPT !.G = G]
          /\ verdict' = IF verify_correct_decryption(decryption.S, decryption.Y,
                               decryption.proof, PtMul(decryption.x, params.g0), params.p, G)
                        THEN "True" ELSE "False"
    /\ UNCHANGED <<params, keys, dealer, received, proved, sharing, recon>>

NextDecrypt == DecryptAndProve \/ VerifyDecryption

SpecDecrypt == InitDecrypt /\ [][NextDecrypt]_vars

----------------------------------------------------------------------------
\* The combiner verifies a batch of decryptions

ShareSample == {0, 4}

InitBatch == Init

\* One more (S_i, proof) with its Y_i and pub_key; a forged one has another S_i.
AddDecryption ==
    /\ verdict = "none"
    /\ Len(proved.entries) < MaxN
    /\ \E x_i \in PrivSample, s_i \in ShareSample, w \in NonceSample, forge \in BOOLEAN :
          LET y_i == PtMul(x_i, params.g0)
              Y_i == PtMul(s_i, y_i)
              out == participant_decrypt_and_prove(params, x_i, Y_i, w)
              S_i == IF forge THEN PtAdd(out.S, 1) ELSE out.S
          IN  proved' = [entries |-> Append(proved.entries, [S |-> S_i, proof |-> out.proof]),
                         Y_list |-> Append(proved.Y_list, Y_i),
                         pub_keys |-> Append(proved.pub_keys, y_i),
                         forged |-> Append(proved.forged, forge)]
    /\ UNCHANGED <<params, keys, dealer, received, verdict, decryption, sharing, recon>>

BatchVerify ==
    /\ verdict = "none"
    /\ Len(proved.entries) > 0
    /\ verdict' = IF batch_verify_correct_decryption(proved.entries, proved.Y_list,
                                                     proved.pub_keys, params.p, params.g0)
                  THEN "True" ELSE "False"
    /\ UNCHANGED <<params, keys, dealer, received, decryption, proved, sharing, recon>>

NextBatch == AddDecryption \/ BatchVerify

SpecBatch == InitBatch /\ [][NextBatch]_vars

----------------------------------------------------------------------------
\* Shares, commitments and reconstruction (test_X_i_calc, test_all_reconstuctions)

InitShare == Init

\* A polynomial of k coefficients, its n shares, its commitments and the X_i.
Share ==
    /\ ~sharing.committed
    /\ \E k \in 1..MaxN, n \in 1..MaxN, secret \in 0..(P - 1) :
       \E px_rand \in [1..(k - 1) -> CoefSample] :
          LET px == gen_polynomial(k, secret, px_rand)
              commitments == get_commitments(params.h, px)
          IN  sharing' = [committed |-> TRUE, px |-> px, k |-> k, n |-> n,
                          shares |-> calc_shares(px, k, n, params.p),
                          C_list |-> commitments,
                          X_list |-> get_X_i_list(commitments, n)]
    /\ UNCHANGED <<params, keys, dealer, received, verdict, decryption, proved, recon>>

\* The indices a combiner may name: those of the participants, and one beyond them
\* that is congruent to the first mod p.
Indices(n) == (1..n) \cup {P + 1}

\* The honestly decrypted share of index i: S_i = s_i * g0.
DecryptedShare(i) == PtMul(calc_share(sharing.px, sharing.k, i, params.p), params.g0)

\* The combiner calls decode on k decrypted shares and their indices.
Decode ==
    /\ sharing.committed
    /\ recon.status = "none"
    /\ \E index_list \in [1..sharing.k -> Indices(sharing.n)] :
          LET S_list == [m \in 1..sharing.k |-> DecryptedShare(index_list[m])]
              out == decode(S_list, index_list, params.p)
          IN  recon' = [status |-> out.status, index_list |-> index_list,
                        S_list |-> S_list, value |-> out.value]
    /\ UNCHANGED <<params, keys, dealer, received, verdict, decryption, proved, sharing>>

NextShare == Share \/ Decode

SpecShare == InitShare /\ [][NextShare]_vars

----------------------------------------------------------------------------
\* The claims

ValidCall == 1 <= dealer.k /\ dealer.k < dealer.n /\ Len(keys) = dealer.n

\* C1: for every 1 <= t < n, every secret, coefficients, nonces and n public keys,
\* gen_proof returns a bundle and proof, and DLEQ_verify_list on them returns True.
C1_BatchCompleteness ==
    (dealer.status # "none" /\ ValidCall) =>
        /\ dealer.status = "ok"
        /\ verdict # "none" => verdict = "True"

\* C7: gen_proof returns a bundle only when 1 <= k < n and len(pub_keys) == n; for
\* every other input it fails with an error and returns no bundle and no proof.
C7_EagerValidation ==
    dealer.status # "none" =>
        /\ dealer.status = "ok" => ValidCall
        /\ ~ValidCall =>
              /\ dealer.status = "AssertionError"
              /\ ~received.given
              /\ dealer.C_list = <<>> /\ dealer.Y_list = <<>> /\ dealer.proof = NoProof

\* A call with k < 1 that passes both leading asserts and fails later.
C7_Witness ==
    /\ dealer.status = "AssertionError"
    /\ dealer.k < 1 /\ dealer.n > dealer.k /\ Len(keys) = dealer.n
    /\ ~received.given

\* C10: the challenge c of every proof is the digest reduced mod p: it lies in [0, p).
C10_ChallengeInZp ==
    /\ dealer.status = "ok" => BnLess(dealer.proof.c, params.p)
    /\ decryption.status = "ok" => BnLess(decryption.proof.c, params.p)

SameLengths(b) ==
    /\ Len(b.y_list) = Len(Honest.y_list)
    /\ Len(b.C_list) = Len(Honest.C_list)
    /\ Len(b.Y_list) = Len(Honest.Y_list)
    /\ Len(b.proof.r_list) = Len(Honest.proof.r_list)
    /\ Len(b.proof.a_1_list) = Len(Honest.proof.a_1_list)
    /\ Len(b.proof.a_2_list) = Len(Honest.proof.a_2_list)

Differing(l, m) == Cardinality({i \in 1..Len(l) : l[i] # m[i]})

\* The number of values of the bundle and proof b that are not the dealer's.
Replaced(b) ==
    Differing(b.C_list, Honest.C_list) + Differing(b.Y_list, Honest.Y_list)
      + Differing(b.proof.r_list, Honest.proof.r_list)
      + Differing(b.proof.a_1_list, Honest.proof.a_1_list)
      + Differing(b.proof.a_2_list, Honest.proof.a_2_list)
      + (IF b.proof.c # Honest.proof.c THEN 1 ELSE 0)

\* The verifier was handed the dealer's bundle with exactly one value replaced.
OneReplaced ==
    /\ received.given /\ verdict # "none"
    /\ received.y_list = Honest.y_list
    /\ SameLengths(received)
    /\ Replaced(received) = 1

\* The replaced value is an r_i, replaced by a number congruent to it mod p.
CongruentR ==
    \E i \in 1..Len(Honest.proof.r_list) :
       /\ received.proof.r_list[i] # Honest.proof.r_list[i]
       /\ (received.proof.r_list[i] - Honest.proof.r_list[i]) % params.p = 0

\* C4 as stated: replacing exactly one value (a C_j, a Y_i, c, an r_i, an a_1_i or
\* an a_2_i) of a verifying bundle by a different value makes DLEQ_verify_list
\* return False.
C4_AnyReplacementRejected == OneReplaced => verdict = "False"

\* C4 as amended: the same, except for an r_i replaced by a different number that is
\* congruent to it mod p; with that one the verification still returns True.
C4_SoundnessNegative ==
    OneReplaced => (verdict = "False" <=> ~CongruentR) /\ (verdict = "True" <=> CongruentR)

\* An r_i replaced by another scalar of Z_p: c matches, the equations reject.
C4_Witness ==
    /\ OneReplaced /\ verdict = "False"
    /\ received.proof.c = Honest.proof.c
    /\ received.proof.r_list # Honest.proof.r_list
    /\ ~CongruentR

\* C6: whenever the public keys, Y_list, r_list, a_1_list and a_2_list handed to
\* DLEQ_verify_list do not all have the same length, the call reports an error and
\* never returns True.
C6_LengthMismatchIsError ==
    (/\ received.given /\ verdict # "none"
     /\ \/ Len(received.y_list) # Len(received.Y_list)
        \/ Len(received.Y_list) # Len(received.proof.r_list)
        \/ Len(received.proof.r_list) # Len(received.proof.a_1_list)
        \/ Len(received.proof.a_1_list) # Len(received.proof.a_2_list))
    => verdict \notin {"True", "False"}

\* C5: for every invertible x_i, every share s_i and every nonce w, the (S_i, proof)
\* of participant_decrypt_and_prove passes verify_correct_decryption against
\* Y_i = s_i * (x_i * G) and x_i * G, when G is the g0 of params.
C5_DecryptionCompleteness ==
    (decryption.status = "ok" /\ verdict # "none" /\ decryption.G = params.g0)
        => verdict = "True"

\* The share 0 decrypted and verified with G = g0.
C5_Witness ==
    /\ decryption.status = "ok" /\ decryption.G = params.g0
    /\ decryption.share = 0 /\ decryption.proof.r # 0
    /\ verdict = "True"

\* Entry i of proved_decryptions passes verify_correct_decryption on its own.
EntryPasses(i) ==
    verify_correct_decryption(proved.entries[i].S, proved.Y_list[i],
                              proved.entries[i].proof, proved.pub_keys[i],
                              params.p, params.g0)

\* C8: batch_verify_correct_decryption returns True only if every entry passes
\* verify_correct_decryption against its own Y_i and pub_key; one failing entry at
\* any position makes the call return False.
C8_BatchFailsClosed ==
    (Len(proved.entries) > 0 /\ verdict # "none") =>
        (verdict = "True" <=> \A i \in 1..Len(proved.entries) : EntryPasses(i))

\* Only the last of several entries fails, and the call returns False.
C8_Witness ==
    /\ Len(proved.entries) >= 2 /\ verdict = "False"
    /\ ~EntryPasses(Len(proved.entries))
    /\ \A i \in 1..(Len(proved.entries) - 1) : EntryPasses(i)

\* The index list names k pairwise distinct participants of 1..n.
DistinctParticipants ==
    /\ Len(recon.index_list) = sharing.k
    /\ \A m \in 1..Len(recon.index_list) : recon.index_list[m] \in 1..sharing.n
    /\ \A a, b \in 1..Len(recon.index_list) :
          a # b => recon.index_list[a] # recon.index_list[b]

\* C2: decode on the honestly decrypted shares of any t pairwise distinct indices of
\* [1, n], in any order, returns m * G, the same for every subset and order.
C2_ReconstructionCorrect ==
    (recon.status # "none" /\ DistinctParticipants) =>
        /\ recon.status = "ok"
        /\ recon.value = PtMul(sharing.px[1], params.g0)

\* Two shares out of three, the indices in descending order, a secret that is not 0.
C2_Witness ==
    /\ recon.status = "ok" /\ DistinctParticipants
    /\ sharing.k >= 2 /\ sharing.n > sharing.k
    /\ recon.index_list[1] > recon.index_list[2]
    /\ sharing.px[1] # 0 /\ sharing.px[2] # 0

\* C3: for every polynomial, generator h and index i of [1, n], the i-th element of
\* get_X_i_list(get_commitments(h, px), n) equals share_i * h, share_i the i-th
\* element of calc_shares(px, k, n, p).
C3_CommitmentHomomorphism ==
    sharing.committed =>
        /\ Len(sharing.X_list) = sharing.n
        /\ \A i \in 1..sharing.n : sharing.X_list[i] = PtMul(sharing.shares[i], params.h)

\* A polynomial of degree 2 at i = 3: the power i**2 = 9 is above p.
C3_Witness ==
    /\ sharing.committed /\ sharing.k >= 3 /\ sharing.n >= 3
    /\ sharing.px[3] # 0 /\ sharing.px[2] # 0
    /\ Pow(3, 2) > params.p

\* Two places of the list hold indices congruent mod p.
CongruentPair(same) ==
    \E a, b \in 1..Len(recon.index_list) :
       /\ a # b
       /\ (recon.index_list[a] - recon.index_list[b]) % params.p = 0
       /\ (recon.index_list[a] = recon.index_list[b]) = same

\* C9 as stated: the Lagrange computation fails with an error whenever two places of
\* the index list hold i and j with j - i = 0 mod p, the same integer or not, so
\* that decode returns no value.
C9_DuplicateIndexIsError ==
    (recon.status # "none" /\ (CongruentPair(TRUE) \/ CongruentPair(FALSE)))
        => recon.status # "ok"

\* C9 as amended: it fails exactly when two places hold different integers that are
\* congruent mod p; an index repeated as the same integer is skipped by j != i, and
\* decode returns a value.
C9_CongruentIndicesAreError ==
    recon.status # "none" =>
        /\ CongruentPair(FALSE) => recon.status = "NoInverse"
        /\ ~CongruentPair(FALSE) => recon.status = "ok"

\* The indices 1 and p + 1 in one list.
C9_Witness ==
    /\ recon.status = "NoInverse"
    /\ CongruentPair(FALSE) /\ ~CongruentPair(TRUE)

====
